---- MODULE Spec2Model ----
(***************************************************************************)
(* The connection layer of prospyr (src/prospyr/connection.py):            *)
(*   - the module-level registry `_connections` with connect / get,        *)
(*   - validate_url,                                                       *)
(*   - Connection.http_method (the rate limiter), Connection.get (cache    *)
(*     read-through), Connection.delete (cache invalidation) and the       *)
(*     pass-through verbs post / put / patch / options;                    *)
(* and of its schema layer (src/prospyr/schema.py):                        *)
(*   - TrimSchema.clean_empty, the post_dump hook that drops empty fields, *)
(*   - NamedTupleSchema, which loads to and dumps from a namedtuple.       *)
(*                                                                         *)
(* Threads interleave at the granularity of the reads and writes of shared *)
(* state (the registry dict, Connection.last_api_call, the cache, the wall *)
(* clock).  Time is counted in ticks of 0.1 s.                             *)
(***************************************************************************)
EXTENDS Integers, Sequences, FiniteSets, TLC

\* ---------------------------------------------------------------- bounds
MaxConns == 2   \* Connection objects constructed in one run
MaxOps == 2     \* verb calls started on Connections in one run
MaxTicks == 2   \* the free-running clock ticks while clock < MaxTicks
MaxJumps == 1   \* five-minute leaps of the clock in one run

\* ------------------------------------------------------- optional values
\* Python's None and a present value, as sequences of length 0 and 1.
None == <<>>
Some(x) == <<x>>
Val(o) == o[1]

Max(a, b) == IF a < b THEN b ELSE a

\* ------------------------------------------------------------ input sets
Threads == {"t1", "t2"}
ConnIds == 1..MaxConns
ReqUrls == {"people/1/", "people/2/"}
Verbs == {"post", "put", "patch", "options"}
\* status codes a server can answer with: success, a non-error 3xx, failure
Statuses == {200, 304, 404}
\* rate_limit values a Connection is constructed with (calls per minute);
\* 600 is the default of Connection.__init__, 0 disables the limiter.
RateLimits == {0, 40, 600}
\* connection names; 'default' is the default of connect and get
Names == {"default", "crm"}
\* account e-mails
Emails == {"foo", "bar"}

\* A url is the sequence of its pieces: ":" and "/" stand for themselves and
\* every other piece is a run of characters holding neither.
ConnectUrls ==
    { <<"https", ":", "/", "/", "api.prosperworks.com", "/", "developer_api", "/">>,
      <<"https", ":", "/", "/", "api.example.com", "/", "developer_api", "/", "v2", "/">>,
      <<"api.example.com">>,
      <<"ftp", ":", "/", "/", "api.example.com", "/", "developer_api", "/">>,
      <<"https", ":", "/", "/", "/", "developer_api", "/">>,
      <<"https", ":", "/", "/", "v2.example.com", "/", "developer_api", "/">> }
\* the pieces above that begin with the letter v and a digit
VDigitPieces == {"v2", "v2.example.com"}

\* ------------------------------------------------------------------ time
\* s seconds in clock ticks (one tick is 0.1 s).
Seconds(s) == 10 * s

\* seconds(minutes=5), the max_age Connection.get hands to cache.set.
FiveMinutes == Seconds(5 * 60)

\* Connection.TEN_MINUTES
TEN_MINUTES == 600

VARIABLES
    connections,    \* _connections: name -> Connection (None: name absent)
    nconns,         \* Connection objects constructed so far (ids 1..nconns)
    email,          \* Connection.email
    rate_limit,     \* Connection.rate_limit
    last_api_call,  \* Connection.last_api_call
    cache,          \* Connection.cache: url -> entry (None: no entry)
    clock,          \* the wall clock read by datetime.now(), in ticks
    trueDivision,   \* TRUE: `/` is true division (Python 3);
                    \* FALSE: `/` on ints floors (Python 2, no
                    \*        `from __future__ import division`)
    sharers,        \* the threads holding a reference to the Connection
    nresp,          \* responses received so far (a response's id)
    started,        \* verb calls started so far
    nsent,          \* requests sent so far
    stamps,         \* per connection: the times recorded as last_api_call
    deleted,        \* per connection and url: id of the response of the
                    \* latest successful delete whose clear has run (0: none)
    raced,          \* per connection and url: the entry in the cache was
                    \* stored by a get that missed before a successful
                    \* delete of the url cleared and stored after it
    returned,       \* per name: the Connections successful connects returned
    lock,           \* per thread: the holder of the RLock its current
                    \* http_method call created (None: free)
    pc,             \* per thread: the statement it is at
    frame,          \* per thread: the locals of the call it is in
    ret,            \* per thread: the outcome of the call it made last
    schema,         \* the Schema class a load or dump is called on
    data,           \* the mapping handed to the schema
    loaded,         \* what schema.load(data) did (None: not called yet)
    dumped          \* what schema.dump gave back (None: not called yet)

vars == <<connections, nconns, email, rate_limit, last_api_call, cache, clock,
          trueDivision, sharers, nresp, nsent, started, stamps, deleted, raced,
          returned, lock, pc, frame, ret, schema, data, loaded, dumped>>

registryVars == <<connections, nconns, email, returned>>
connVars == <<rate_limit, last_api_call, cache>>
schemaVars == <<schema, data, loaded, dumped>>
envVars == <<trueDivision, sharers, schemaVars>>
histVars == <<nresp, nsent, started, stamps, deleted, raced>>

NoFrame == [op |-> "none"]

\* ================================================================ cache
\* prospyr.cache.InMemoryCache: get / set / clear with per-entry expiry.

\* cache.get(key): the stored value, or None when there is no entry or the
\* entry's expires_at lies in the past.
CacheGet(store, key, now) ==
    IF store[key] = None THEN None
    ELSE IF now > Val(store[key]).expires THEN None
    ELSE Some(Val(store[key]).value)

\* cache.set(key, value, max_age): overwrites any entry for key.
CacheSet(store, key, value, max_age, now) ==
    [store EXCEPT ![key] = Some([value |-> value, expires |-> now + max_age])]

\* cache.clear(key): removes the entry for key, a no-op when absent.
CacheClear(store, key) ==
    [store EXCEPT ![key] = None]

\* ========================================================= rate limiter
\* `60 / self.rate_limit` in ticks.  With true division it is the exact
\* quotient (RateLimits holds divisors of 600 ticks only); on Python 2 the
\* operands are ints and `/` floors to whole seconds.
MinSpacing(r) ==
    IF trueDivision THEN Seconds(60) \div r ELSE Seconds(60 \div r)

\* resp.ok of requests: no 4xx/5xx status.
RespOk(resp) == resp.status < 400

\* ======================================================== Connection verbs
\* The locals of a verb call: `op` is the Connection method called ("get",
\* "delete" or "verb" for the ones __getattr__ synthesises), `method` the
\* HTTP method http_method is called with, `nreq` counts the requests the
\* call has issued, `prev` remembers the last_api_call the call found on
\* entering http_method and `seen` the latest successful delete of the url
\* at the time a get looked the cache up.
VerbFrame(o, c, m, u) ==
    [op |-> o, self |-> c, method |-> m, url |-> u, now |-> None,
     wake |-> None, stamp |-> None, resp |-> None, nreq |-> 0,
     prev |-> None, seen |-> deleted[c][u]]

\* What a finished verb call leaves in ret: the value returned, whether it
\* came from the cache, and the number of HTTP requests the call issued.
VerbReturn(t, value, hit) ==
    /\ pc' = [pc EXCEPT ![t] = "idle"]
    /\ ret' = [ret EXCEPT ![t] = Some([op |-> frame[t].op,
                                       url |-> frame[t].url,
                                       value |-> value,
                                       hit |-> hit,
                                       nreq |-> frame[t].nreq])]
    /\ frame' = [frame EXCEPT ![t] = NoFrame]

CanStart(t, c) ==
    /\ pc[t] = "idle"
    /\ t \in sharers
    /\ c \in 1..nconns
    /\ started < MaxOps

StartVerb(t, o, c, m, u, at) ==
    /\ started' = started + 1
    /\ frame' = [frame EXCEPT ![t] = VerbFrame(o, c, m, u)]
    /\ pc' = [pc EXCEPT ![t] = at]
    /\ ret' = [ret EXCEPT ![t] = None]
    /\ UNCHANGED <<registryVars, connVars, envVars, clock, nresp, nsent,
                   stamps, deleted, raced, lock>>

\* conn.get(url) is called.
Get_call(t, c, u) ==
    /\ CanStart(t, c)
    /\ StartVerb(t, "get", c, "get", u, "get")

\* conn.delete(url) is called: line 179 calls http_method('delete', url).
Delete_call(t, c, u) ==
    /\ CanStart(t, c)
    /\ StartVerb(t, "delete", c, "delete", u, "http_method")

\* Verb_call with the synthesised verb going through the cache lookup of
\* Connection.get instead of straight to http_method.
Verb_call_cached(t, c, m, u) ==
    /\ CanStart(t, c)
    /\ m \in Verbs
    /\ StartVerb(t, "verb", c, m, u, "get")

\* conn.post / put / patch / options: __getattr__ hands out
\* functools.partial(self.http_method, name), which is then called.
Verb_call(t, c, m, u) ==
    /\ CanStart(t, c)
    /\ m \in Verbs
    /\ StartVerb(t, "verb", c, m, u, "http_method")

\* Get_lookup with the cache test lost: every get goes to http_method.
Get_lookup_refetch(t) ==
    /\ pc[t] = "get"
    /\ pc' = [pc EXCEPT ![t] = "http_method"]
    /\ frame' = [frame EXCEPT
                   ![t].seen = deleted[frame[t].self][frame[t].url]]
    /\ UNCHANGED <<registryVars, connVars, envVars, histVars, clock, lock,
                   ret>>

\* Connection.get, lines 172-173 and 176: the cache lookup; a hit returns
\* the cached value, a miss goes on to http_method('get', url).
Get_lookup(t) ==
    /\ pc[t] = "get"
    /\ LET c == frame[t].self
           cached == CacheGet(cache[c], frame[t].url, clock)
       IN  IF cached = None
           THEN /\ pc' = [pc EXCEPT ![t] = "http_method"]
                /\ frame' = [frame EXCEPT ![t].seen = deleted[c][frame[t].url]]
                /\ ret' = ret
           ELSE VerbReturn(t, Val(cached), TRUE)
    /\ UNCHANGED <<registryVars, connVars, envVars, histVars, clock, lock>>

\* Http_method_enter with the rate_limit test lost: a Connection whose
\* limiter is switched off goes through the spacing check all the same.
Http_method_enter_unguarded(t) ==
    /\ pc[t] = "http_method"
    /\ lock[t] = None
    /\ LET c == frame[t].self
       IN  /\ lock' = [lock EXCEPT ![t] = Some(t)]
           /\ pc' = [pc EXCEPT ![t] =
                       IF last_api_call[c] # None THEN "elapsed"
                                                  ELSE "record"]
           /\ frame' = [frame EXCEPT ![t].prev = last_api_call[c]]
    /\ UNCHANGED <<registryVars, connVars, envVars, histVars, clock, ret>>

\* http_method, lines 121-125: a new RLock is created and entered, then
\* rate_limit and last_api_call are tested.  With rate limiting off the
\* with-block is left at once.
Http_method_enter(t) ==
    /\ pc[t] = "http_method"
    /\ lock[t] = None
    /\ LET c == frame[t].self
       IN  IF rate_limit[c] = 0
           THEN /\ pc' = [pc EXCEPT ![t] = "request"]
                /\ lock' = lock
                /\ frame' = frame
           ELSE /\ lock' = [lock EXCEPT ![t] = Some(t)]
                /\ pc' = [pc EXCEPT ![t] =
                            IF last_api_call[c] # None THEN "elapsed"
                                                       ELSE "record"]
                /\ frame' = [frame EXCEPT ![t].prev = last_api_call[c]]
    /\ UNCHANGED <<registryVars, connVars, envVars, histVars, clock, ret>>

\* line 126, left operand: datetime.now().
Http_method_now(t) ==
    /\ pc[t] = "elapsed"
    /\ frame' = [frame EXCEPT ![t].now = Some(clock)]
    /\ pc' = [pc EXCEPT ![t] = "compare"]
    /\ UNCHANGED <<registryVars, connVars, envVars, histVars, clock, lock,
                   ret>>

\* lines 126-130: self.last_api_call is read, elapsed is compared with
\* 60 / rate_limit, and time.sleep(sleep) is entered when it is smaller.
Http_method_check(t) ==
    /\ pc[t] = "compare"
    /\ LET c == frame[t].self
           elapsed == Val(frame[t].now) - Val(last_api_call[c])
           spacing == MinSpacing(rate_limit[c])
       IN  IF elapsed < spacing
           THEN /\ frame' = [frame EXCEPT
                               ![t].now = None,
                               ![t].wake = Some(clock + (spacing - elapsed))]
                /\ pc' = [pc EXCEPT ![t] = "sleep"]
           ELSE /\ pc' = [pc EXCEPT ![t] = "record"]
                /\ frame' = [frame EXCEPT ![t].now = None]
    /\ UNCHANGED <<registryVars, connVars, envVars, histVars, clock, lock,
                   ret>>

\* line 130: time.sleep returns, no earlier than the requested time.
Http_method_wake(t) ==
    /\ pc[t] = "sleep"
    /\ clock' = Max(clock, Val(frame[t].wake))
    /\ frame' = [frame EXCEPT ![t].wake = None]
    /\ pc' = [pc EXCEPT ![t] = "record"]
    /\ UNCHANGED <<registryVars, connVars, envVars, histVars, lock, ret>>

\* line 136, right-hand side: datetime.now().
Http_method_stamp(t) ==
    /\ pc[t] = "record"
    /\ frame' = [frame EXCEPT ![t].stamp = Some(clock)]
    /\ pc' = [pc EXCEPT ![t] = "store"]
    /\ UNCHANGED <<registryVars, connVars, envVars, histVars, clock, lock,
                   ret>>

\* Http_method_store with last_api_call kept once for all Connections (an
\* attribute of the class, not of the instance).
Http_method_store_global(t) ==
    /\ pc[t] = "store"
    /\ last_api_call' = [c \in ConnIds |->
                            IF c \in 1..nconns /\ rate_limit[c] > 0
                            THEN frame[t].stamp ELSE last_api_call[c]]
    /\ stamps' = [stamps EXCEPT ![frame[t].self] = @ \cup {Val(frame[t].stamp)}]
    /\ lock' = [lock EXCEPT ![t] = None]
    /\ pc' = [pc EXCEPT ![t] = "request"]
    /\ UNCHANGED <<registryVars, rate_limit, cache, envVars, nresp, nsent,
                   started, deleted, raced, clock, frame, ret>>

\* line 136, the assignment to self.last_api_call; the with-block ends and
\* the lock is released.
Http_method_store(t) ==
    /\ pc[t] = "store"
    /\ last_api_call' = [last_api_call EXCEPT ![frame[t].self] = frame[t].stamp]
    /\ stamps' = [stamps EXCEPT ![frame[t].self] = @ \cup {Val(frame[t].stamp)}]
    /\ lock' = [lock EXCEPT ![t] = None]
    /\ pc' = [pc EXCEPT ![t] = "request"]
    /\ UNCHANGED <<registryVars, rate_limit, cache, envVars, nresp, nsent,
                   started, deleted, raced, clock, frame, ret>>

\* lines 138-139: the request goes out over the session.
Http_method_send(t) ==
    /\ pc[t] = "request"
    /\ nsent' = nsent + 1
    /\ frame' = [frame EXCEPT ![t].nreq = @ + 1]
    /\ pc' = [pc EXCEPT ![t] = "response"]
    /\ UNCHANGED <<registryVars, connVars, envVars, clock, nresp, started,
                   stamps, deleted, raced, lock, ret>>

\* Http_method_return with the time of the call recorded once more when
\* the response is in (timing from the end of the request).
Http_method_return_restamp(t, status) ==
    /\ pc[t] = "response"
    /\ nresp' = nresp + 1
    /\ last_api_call' = [last_api_call EXCEPT ![frame[t].self] =
                            IF rate_limit[frame[t].self] = 0 THEN @
                            ELSE Some(clock)]
    /\ LET resp == [id |-> nresp + 1, status |-> status,
                    method |-> frame[t].method]
       IN  CASE frame[t].op = "get" ->
                  /\ frame' = [frame EXCEPT ![t].resp = Some(resp)]
                  /\ pc' = [pc EXCEPT ![t] = "cache_set"]
                  /\ ret' = ret
             [] frame[t].op = "delete" ->
                  /\ frame' = [frame EXCEPT ![t].resp = Some(resp)]
                  /\ pc' = [pc EXCEPT ![t] = "ok_check"]
                  /\ ret' = ret
             [] OTHER -> VerbReturn(t, resp, FALSE)
    /\ UNCHANGED <<registryVars, rate_limit, cache, envVars, clock, nsent,
                   started, stamps, deleted, raced, lock>>

\* line 139: the response arrives, with any status, and http_method returns
\* it to Connection.get, Connection.delete or the caller of the verb.
Http_method_return(t, status) ==
    /\ pc[t] = "response"
    /\ nresp' = nresp + 1
    /\ LET resp == [id |-> nresp + 1, status |-> status,
                    method |-> frame[t].method]
       IN  CASE frame[t].op = "get" ->
                  /\ frame' = [frame EXCEPT ![t].resp = Some(resp)]
                  /\ pc' = [pc EXCEPT ![t] = "cache_set"]
                  /\ ret' = ret
             [] frame[t].op = "delete" ->
                  /\ frame' = [frame EXCEPT ![t].resp = Some(resp)]
                  /\ pc' = [pc EXCEPT ![t] = "ok_check"]
                  /\ ret' = ret
             [] OTHER -> VerbReturn(t, resp, FALSE)
    /\ UNCHANGED <<registryVars, connVars, envVars, clock, nsent, started,
                   stamps, deleted, raced, lock>>

\* Get_set with Connection.TEN_MINUTES as the max_age.
Get_set_ten_minutes(t) ==
    /\ pc[t] = "cache_set"
    /\ LET c == frame[t].self
       IN  cache' = [cache EXCEPT ![c] =
                       CacheSet(@, frame[t].url, Val(frame[t].resp),
                                Seconds(TEN_MINUTES), clock)]
    /\ raced' = [raced EXCEPT ![frame[t].self][frame[t].url] =
                    deleted[frame[t].self][frame[t].url] # frame[t].seen]
    /\ VerbReturn(t, Val(frame[t].resp), FALSE)
    /\ UNCHANGED <<registryVars, rate_limit, last_api_call, envVars, clock,
                   nresp, nsent, started, stamps, deleted, lock>>

\* Get_set caching the response only when it is ok.
Get_set_ok_only(t) ==
    /\ pc[t] = "cache_set"
    /\ LET c == frame[t].self
       IN  IF RespOk(Val(frame[t].resp))
           THEN /\ cache' = [cache EXCEPT ![c] =
                               CacheSet(@, frame[t].url, Val(frame[t].resp),
                                        FiveMinutes, clock)]
                /\ raced' = [raced EXCEPT ![c][frame[t].url] =
                                deleted[c][frame[t].url] # frame[t].seen]
           ELSE UNCHANGED <<cache, raced>>
    /\ VerbReturn(t, Val(frame[t].resp), FALSE)
    /\ UNCHANGED <<registryVars, rate_limit, last_api_call, envVars, clock,
                   nresp, nsent, started, stamps, deleted, lock>>

\* Connection.get, lines 175-176: the response is cached for five minutes
\* and returned.
Get_set(t) ==
    /\ pc[t] = "cache_set"
    /\ LET c == frame[t].self
       IN  cache' = [cache EXCEPT ![c] =
                       CacheSet(@, frame[t].url, Val(frame[t].resp),
                                FiveMinutes, clock)]
    /\ raced' = [raced EXCEPT ![frame[t].self][frame[t].url] =
                    deleted[frame[t].self][frame[t].url] # frame[t].seen]
    /\ VerbReturn(t, Val(frame[t].resp), FALSE)
    /\ UNCHANGED <<registryVars, rate_limit, last_api_call, envVars, clock,
                   nresp, nsent, started, stamps, deleted, lock>>

\* Delete_check with the cache.clear call lost.
Delete_check_keep(t) ==
    /\ pc[t] = "ok_check"
    /\ LET c == frame[t].self
           u == frame[t].url
           resp == Val(frame[t].resp)
       IN  IF RespOk(resp)
           THEN /\ cache' = cache
                /\ deleted' = [deleted EXCEPT ![c][u] = resp.id]
                /\ raced' = [raced EXCEPT ![c][u] = FALSE]
           ELSE UNCHANGED <<cache, deleted, raced>>
    /\ VerbReturn(t, Val(frame[t].resp), FALSE)
    /\ UNCHANGED <<registryVars, rate_limit, last_api_call, envVars, clock,
                   nresp, nsent, started, stamps, lock>>

\* Delete_check with the resp.ok test lost: the entry is cleared always.
Delete_check_always(t) ==
    /\ pc[t] = "ok_check"
    /\ LET c == frame[t].self
           u == frame[t].url
           resp == Val(frame[t].resp)
       IN  /\ cache' = [cache EXCEPT ![c] = CacheClear(@, u)]
           /\ IF RespOk(resp)
              THEN /\ deleted' = [deleted EXCEPT ![c][u] = resp.id]
                   /\ raced' = [raced EXCEPT ![c][u] = FALSE]
              ELSE UNCHANGED <<deleted, raced>>
    /\ VerbReturn(t, Val(frame[t].resp), FALSE)
    /\ UNCHANGED <<registryVars, rate_limit, last_api_call, envVars, clock,
                   nresp, nsent, started, stamps, lock>>

\* Connection.delete, lines 180-182: the cache entry is cleared when the
\* response is ok, and the response is returned.
Delete_check(t) ==
    /\ pc[t] = "ok_check"
    /\ LET c == frame[t].self
           u == frame[t].url
           resp == Val(frame[t].resp)
       IN  IF RespOk(resp)
           THEN /\ cache' = [cache EXCEPT ![c] = CacheClear(@, u)]
                /\ deleted' = [deleted EXCEPT ![c][u] = resp.id]
                /\ raced' = [raced EXCEPT ![c][u] = FALSE]
           ELSE UNCHANGED <<cache, deleted, raced>>
    /\ VerbReturn(t, Val(frame[t].resp), FALSE)
    /\ UNCHANGED <<registryVars, rate_limit, last_api_call, envVars, clock,
                   nresp, nsent, started, stamps, lock>>

\* ----------------------------------------------------------------- clock
\* Time passes: one tick.
Tick ==
    /\ clock < MaxTicks
    /\ clock' = clock + 1
    /\ UNCHANGED <<registryVars, connVars, envVars, histVars, lock, pc, frame,
                   ret>>

\* Time passes: five minutes, the freshness window of a cached response.
Jump ==
    /\ clock < MaxJumps * FiveMinutes
    /\ clock' = clock + FiveMinutes
    /\ UNCHANGED <<registryVars, connVars, envVars, histVars, lock, pc, frame,
                   ret>>

\* ============================================================== registry
IsWord(p) == p \notin {":", "/"}

\* URLObject(url).scheme: what stands before the first ":", '' without one.
UrlScheme(url) ==
    IF Len(url) >= 2 /\ IsWord(url[1]) /\ url[2] = ":" THEN url[1] ELSE ""

\* URLObject(url).hostname: the piece after "//", which follows the scheme;
\* '' when there is no "//" or nothing but "/" after it.
UrlHostname(url) ==
    LET k == IF UrlScheme(url) = "" THEN 1 ELSE 3
    IN  IF /\ Len(url) >= k + 2
           /\ url[k] = "/"
           /\ url[k + 1] = "/"
           /\ IsWord(url[k + 2])
        THEN url[k + 2]
        ELSE ""

\* re.search('/v\d', url): somewhere in the text a "/" is followed by the
\* letter v and a digit.
UrlSearchVDigit(url) ==
    \E i \in 1..(Len(url) - 1) : url[i] = "/" /\ url[i + 1] \in VDigitPieces

\* validate_url: None when the url is accepted, else the complaint of the
\* MisconfiguredError raised.
validate_url(url) ==
    IF UrlScheme(url) = "" \/ UrlScheme(url) \notin {"http", "https"}
    THEN Some("must include a scheme")
    ELSE IF UrlHostname(url) = ""
    THEN Some("must include a hostname")
    ELSE IF UrlSearchVDigit(url)
    THEN Some("should not include a version path segment")
    ELSE None

\* What a finished connect or registry get leaves in ret: the exception
\* raised with its message, or the value returned.
RegistryReturn(t, op, name, url, raised, message, value) ==
    /\ pc' = [pc EXCEPT ![t] = "idle"]
    /\ ret' = [ret EXCEPT ![t] = Some([op |-> op, name |-> name, url |-> url,
                                       raised |-> raised,
                                       message |-> message,
                                       value |-> value])]
    /\ frame' = [frame EXCEPT ![t] = NoFrame]

\* connect(email, token, url, name) is called.
Connect_call(t, e, u, n) ==
    /\ pc[t] = "idle"
    /\ frame' = [frame EXCEPT ![t] = [op |-> "connect", name |-> n,
                                      email |-> e, url |-> u, conn |-> None]]
    /\ pc' = [pc EXCEPT ![t] = "connect"]
    /\ ret' = [ret EXCEPT ![t] = None]
    /\ UNCHANGED <<registryVars, connVars, envVars, histVars, clock, lock>>

\* connect, lines 35-40: a name already in _connections raises ValueError
\* with the e-mail of the existing Connection.
Connect_check(t) ==
    /\ pc[t] = "connect"
    /\ LET n == frame[t].name
       IN  IF connections[n] # None
           THEN RegistryReturn(t, "connect", n, frame[t].url,
                               Some("ValueError"),
                               email[Val(connections[n])], None)
           ELSE /\ pc' = [pc EXCEPT ![t] = "validate_url"]
                /\ UNCHANGED <<frame, ret>>
    /\ UNCHANGED <<registryVars, connVars, envVars, histVars, clock, lock>>

\* connect, line 42: validate_url(url) raises MisconfiguredError or passes.
Connect_validate(t) ==
    /\ pc[t] = "validate_url"
    /\ LET complaint == validate_url(frame[t].url)
       IN  IF complaint # None
           THEN RegistryReturn(t, "connect", frame[t].name, frame[t].url,
                               Some("MisconfiguredError"), complaint, None)
           ELSE /\ pc' = [pc EXCEPT ![t] = "construct"]
                /\ UNCHANGED <<frame, ret>>
    /\ UNCHANGED <<registryVars, connVars, envVars, histVars, clock, lock>>

\* connect, line 44: Connection(url, email, token, cache=cache, name=name),
\* that is Connection.__init__ with rate_limit=600, an InMemoryCache of its
\* own and last_api_call None.
Connect_construct(t) ==
    /\ pc[t] = "construct"
    /\ nconns < MaxConns
    /\ LET c == nconns + 1
       IN  /\ nconns' = c
           /\ email' = [email EXCEPT ![c] = Some(frame[t].email)]
           /\ rate_limit' = [rate_limit EXCEPT ![c] = 600]
           /\ last_api_call' = [last_api_call EXCEPT ![c] = None]
           /\ cache' = [cache EXCEPT ![c] = [u \in ReqUrls |-> None]]
           /\ frame' = [frame EXCEPT ![t].conn = Some(c)]
    /\ pc' = [pc EXCEPT ![t] = "register"]
    /\ UNCHANGED <<connections, returned, envVars, histVars, clock, lock, ret>>

\* connect, lines 45-46: the Connection is stored under name and returned.
Connect_store(t) ==
    /\ pc[t] = "register"
    /\ connections' = [connections EXCEPT ![frame[t].name] = frame[t].conn]
    /\ returned' = [returned EXCEPT ![frame[t].name] = @ \cup {Val(frame[t].conn)}]
    /\ RegistryReturn(t, "connect", frame[t].name, frame[t].url, None, None,
                      frame[t].conn)
    /\ UNCHANGED <<nconns, email, connVars, envVars, histVars, clock, lock>>

\* get(name), lines 56-66: the Connection registered under name, or
\* MisconfiguredError with one message for 'default' and another, holding
\* the name, for any other name.
Registry_get(t, n) ==
    /\ pc[t] = "idle"
    /\ IF connections[n] # None
       THEN RegistryReturn(t, "get", n, None, None, None, connections[n])
       ELSE RegistryReturn(t, "get", n, None, Some("MisconfiguredError"),
                           IF n = "default"
                           THEN Some("There is no default connection")
                           ELSE Some(n),
                           None)
    /\ UNCHANGED <<registryVars, connVars, envVars, histVars, clock, lock>>

\* -------------------------------------------------------- initial states
\* No schema is in use: the connection layer never calls the schema layer.
SchemaUnused ==
    /\ schema = "none"
    /\ data = None
    /\ loaded = None
    /\ dumped = None

\* The state after Connection(url, email, token, rate_limit=r) was
\* constructed (lines 106-115) and handed to the threads in sharers; the
\* registry is not involved.
InitConnection(r) ==
    /\ connections = [n \in Names |-> None]
    /\ returned = [n \in Names |-> {}]
    /\ nconns = 1
    /\ email = [c \in ConnIds |-> IF c = 1 THEN Some("foo") ELSE None]
    /\ rate_limit = [c \in ConnIds |-> IF c = 1 THEN r ELSE 0]
    /\ last_api_call = [c \in ConnIds |-> None]
    /\ cache = [c \in ConnIds |-> [u \in ReqUrls |-> None]]
    /\ clock = 0
    /\ trueDivision \in BOOLEAN
    /\ nresp = 0
    /\ started = 0
    /\ nsent = 0
    /\ stamps = [c \in ConnIds |-> {}]
    /\ deleted = [c \in ConnIds |-> [u \in ReqUrls |-> 0]]
    /\ raced = [c \in ConnIds |-> [u \in ReqUrls |-> FALSE]]
    /\ lock = [t \in Threads |-> None]
    /\ pc = [t \in Threads |-> "idle"]
    /\ frame = [t \in Threads |-> NoFrame]
    /\ ret = [t \in Threads |-> None]
    /\ SchemaUnused

\* ------------------------------------------------------ the rate limiter
\* One Connection with any rate limit, used by one thread or shared by all,
\* called through the pass-through verbs.
InitRate ==
    /\ \E r \in RateLimits : InitConnection(r)
    /\ sharers \in {{"t1"}, Threads}

NextRate ==
    \/ Tick
    \/ \E t \in Threads, c \in ConnIds, m \in Verbs, u \in ReqUrls :
          Verb_call(t, c, m, u)
    \/ \E t \in Threads : Http_method_enter(t)
    \/ \E t \in Threads : Http_method_now(t)
    \/ \E t \in Threads : Http_method_check(t)
    \/ \E t \in Threads : Http_method_wake(t)
    \/ \E t \in Threads : Http_method_stamp(t)
    \/ \E t \in Threads : Http_method_store(t)
    \/ \E t \in Threads : Http_method_send(t)
    \/ \E t \in Threads, s \in Statuses : Http_method_return(t, s)

SpecRate == InitRate /\ [][NextRate]_vars

\* ------------------------------------------- the rate limiter, scheduled
\* A Connection that was called once before, at time 0, or not yet at all.
\* In the second case last_api_call holds the time of that call; a call
\* leaves it set only where the limiter is on.
InitUsed ==
    /\ connections = [n \in Names |-> None]
    /\ returned = [n \in Names |-> {}]
    /\ nconns = 1
    /\ email = [c \in ConnIds |-> IF c = 1 THEN Some("foo") ELSE None]
    /\ \E r \in RateLimits, used \in BOOLEAN :
          /\ used => r > 0
          /\ rate_limit = [c \in ConnIds |-> IF c = 1 THEN r ELSE 0]
          /\ last_api_call = [c \in ConnIds |->
                                IF c = 1 /\ used THEN Some(0) ELSE None]
          /\ stamps = [c \in ConnIds |-> IF c = 1 /\ used THEN {0} ELSE {}]
    /\ cache = [c \in ConnIds |-> [u \in ReqUrls |-> None]]
    /\ clock = 0
    /\ trueDivision \in BOOLEAN
    /\ sharers \in {{"t1"}, Threads}
    /\ nresp = 0
    /\ started = 0
    /\ nsent = 0
    /\ deleted = [c \in ConnIds |-> [u \in ReqUrls |-> 0]]
    /\ raced = [c \in ConnIds |-> [u \in ReqUrls |-> FALSE]]
    /\ lock = [t \in Threads |-> None]
    /\ pc = [t \in Threads |-> "idle"]
    /\ frame = [t \in Threads |-> NoFrame]
    /\ ret = [t \in Threads |-> None]
    /\ SchemaUnused

\* The steps of thread t inside http_method up to sending the request
\* (lines 121-139).
Http_method_step(t) ==
    \/ Http_method_enter(t)
    \/ Http_method_now(t)
    \/ Http_method_check(t)
    \/ Http_method_wake(t)
    \/ Http_method_stamp(t)
    \/ Http_method_store(t)
    \/ Http_method_send(t)

\* The interpreter keeps scheduling every thread that can run, and
\* time.sleep returns: a thread inside http_method is never stopped for good.
SpecRateFair ==
    /\ InitUsed
    /\ [][NextRate]_vars
    /\ \A t \in Threads : WF_vars(Http_method_step(t))

\* ------------------------------------------------ the read-through cache
\* One Connection as connect() constructs it (rate_limit 600, its own
\* InMemoryCache), shared by all threads.
InitCache ==
    /\ InitConnection(600)
    /\ sharers = Threads

NextCache ==
    \/ Tick
    \/ Jump
    \/ \E t \in Threads, c \in ConnIds, u \in ReqUrls : Get_call(t, c, u)
    \/ \E t \in Threads, c \in ConnIds, u \in ReqUrls : Delete_call(t, c, u)
    \/ \E t \in Threads : Get_lookup(t)
    \/ \E t \in Threads : Http_method_enter(t)
    \/ \E t \in Threads : Http_method_now(t)
    \/ \E t \in Threads : Http_method_check(t)
    \/ \E t \in Threads : Http_method_wake(t)
    \/ \E t \in Threads : Http_method_stamp(t)
    \/ \E t \in Threads : Http_method_store(t)
    \/ \E t \in Threads : Http_method_send(t)
    \/ \E t \in Threads, s \in Statuses : Http_method_return(t, s)
    \/ \E t \in Threads : Get_set(t)
    \/ \E t \in Threads : Delete_check(t)

SpecCache == InitCache /\ [][NextCache]_vars

\* ----------------------------------------------------------- the registry
\* The module as imported: _connections = {} (line 19), no Connection yet.
InitRegistry ==
    /\ connections = [n \in Names |-> None]
    /\ returned = [n \in Names |-> {}]
    /\ nconns = 0
    /\ email = [c \in ConnIds |-> None]
    /\ rate_limit = [c \in ConnIds |-> 0]
    /\ last_api_call = [c \in ConnIds |-> None]
    /\ cache = [c \in ConnIds |-> [u \in ReqUrls |-> None]]
    /\ clock = 0
    /\ trueDivision \in BOOLEAN
    /\ sharers = Threads
    /\ nresp = 0
    /\ started = 0
    /\ nsent = 0
    /\ stamps = [c \in ConnIds |-> {}]
    /\ deleted = [c \in ConnIds |-> [u \in ReqUrls |-> 0]]
    /\ raced = [c \in ConnIds |-> [u \in ReqUrls |-> FALSE]]
    /\ lock = [t \in Threads |-> None]
    /\ pc = [t \in Threads |-> "idle"]
    /\ frame = [t \in Threads |-> NoFrame]
    /\ ret = [t \in Threads |-> None]
    /\ SchemaUnused

NextRegistry ==
    \/ \E t \in Threads, e \in Emails, u \in ConnectUrls, n \in Names :
          Connect_call(t, e, u, n)
    \/ \E t \in Threads : Connect_check(t)
    \/ \E t \in Threads : Connect_validate(t)
    \/ \E t \in Threads : Connect_construct(t)
    \/ \E t \in Threads : Connect_store(t)
    \/ \E t \in Threads, n \in Names : Registry_get(t, n)

SpecRegistry == InitRegistry /\ [][NextRegistry]_vars

\* ------------------------------------------------------- two Connections
\* Two Connections, each constructed with an InMemoryCache of its own
\* (line 111): the first with the default rate_limit, the second with the
\* limiter left on or switched off (rate_limit=0).  All threads hold both
\* and call any of the six verbs on either.
InitTwo ==
    /\ connections = [n \in Names |-> None]
    /\ returned = [n \in Names |-> {}]
    /\ nconns = 2
    /\ email = [c \in ConnIds |-> IF c = 1 THEN Some("foo")
                                  ELSE IF c = 2 THEN Some("bar") ELSE None]
    /\ \E r \in {0, 600} :
          rate_limit = [c \in ConnIds |-> IF c = 1 THEN 600
                                          ELSE IF c = 2 THEN r ELSE 0]
    /\ last_api_call = [c \in ConnIds |-> None]
    /\ cache = [c \in ConnIds |-> [u \in ReqUrls |-> None]]
    /\ clock = 0
    /\ trueDivision \in BOOLEAN
    /\ sharers = Threads
    /\ nresp = 0
    /\ started = 0
    /\ nsent = 0
    /\ stamps = [c \in ConnIds |-> {}]
    /\ deleted = [c \in ConnIds |-> [u \in ReqUrls |-> 0]]
    /\ raced = [c \in ConnIds |-> [u \in ReqUrls |-> FALSE]]
    /\ lock = [t \in Threads |-> None]
    /\ pc = [t \in Threads |-> "idle"]
    /\ frame = [t \in Threads |-> NoFrame]
    /\ ret = [t \in Threads |-> None]
    /\ SchemaUnused

NextTwo ==
    \/ Tick
    \/ \E t \in Threads, c \in ConnIds, u \in ReqUrls : Get_call(t, c, u)
    \/ \E t \in Threads, c \in ConnIds, u \in ReqUrls : Delete_call(t, c, u)
    \/ \E t \in Threads, c \in ConnIds, m \in Verbs, u \in ReqUrls :
          Verb_call(t, c, m, u)
    \/ \E t \in Threads : Get_lookup(t)
    \/ \E t \in Threads : Http_method_enter(t)
    \/ \E t \in Threads : Http_method_now(t)
    \/ \E t \in Threads : Http_method_check(t)
    \/ \E t \in Threads : Http_method_wake(t)
    \/ \E t \in Threads : Http_method_stamp(t)
    \/ \E t \in Threads : Http_method_store(t)
    \/ \E t \in Threads : Http_method_send(t)
    \/ \E t \in Threads, s \in Statuses : Http_method_return(t, s)
    \/ \E t \in Threads : Get_set(t)
    \/ \E t \in Threads : Delete_check(t)

SpecTwo == InitTwo /\ [][NextTwo]_vars

\* ========================================================== schema layer
\* src/prospyr/schema.py.  A mapping is a function from the keys it holds to
\* their values; the values are written as Python writes them.
connectionVars == <<registryVars, connVars, trueDivision, sharers, histVars,
                    clock, lock, pc, frame, ret>>

\* The connection layer as the module is imported, no call in progress.
ConnectionsUnused ==
    /\ connections = [n \in Names |-> None]
    /\ returned = [n \in Names |-> {}]
    /\ nconns = 0
    /\ email = [c \in ConnIds |-> None]
    /\ rate_limit = [c \in ConnIds |-> 0]
    /\ last_api_call = [c \in ConnIds |-> None]
    /\ cache = [c \in ConnIds |-> [u \in ReqUrls |-> None]]
    /\ clock = 0
    /\ trueDivision \in BOOLEAN
    /\ sharers = Threads
    /\ nresp = 0
    /\ started = 0
    /\ nsent = 0
    /\ stamps = [c \in ConnIds |-> {}]
    /\ deleted = [c \in ConnIds |-> [u \in ReqUrls |-> 0]]
    /\ raced = [c \in ConnIds |-> [u \in ReqUrls |-> FALSE]]
    /\ lock = [t \in Threads |-> None]
    /\ pc = [t \in Threads |-> "idle"]
    /\ frame = [t \in Threads |-> NoFrame]
    /\ ret = [t \in Threads |-> None]

\* The mappings with keys among `keys` and, under key k, a value of
\* values[k].
Mappings(keys, values) ==
    UNION {{d \in [D -> UNION {values[k] : k \in keys}] :
                \A k \in D : d[k] \in values[k]} : D \in SUBSET keys}

\* ------------------------------------------------------------ TrimSchema
\* self.fields of a TrimSchema subclass: an Integer, a Boolean and a String
\* field, a Nested(..., many=True) field and a List field (a field class
\* without the attribute `many`).
TrimFields == {"count", "flag", "name", "emails", "tags"}

\* getattr(self.fields[key], 'many', False), line 26.
Many(key) == key = "emails"

\* What marshmallow's serialisation can leave under each key, before the
\* post_dump hook runs.
TrimValues ==
    [k \in TrimFields |->
        CASE k = "count" -> {"None", "0", "1"}
          [] k = "flag" -> {"None", "False", "True"}
          [] k = "name" -> {"None", "''", "'x'"}
          [] k = "emails" -> {"None", "[]", "[r]"}
          [] k = "tags" -> {"None", "[]", "[r]"}]

\* clean_empty with a truth test in place of the two comparisons: every
\* falsy value is dropped.
clean_empty_falsy(d) ==
    LET to_clean == {key \in DOMAIN d :
                        d[key] \in {"None", "[]", "0", "False", "''"}}
    IN  [key \in DOMAIN d \ to_clean |-> d[key]]

\* TrimSchema.clean_empty, lines 23-35: the keys whose field is a collection
\* and whose value equals [], or else whose value is None, are popped.
clean_empty(d) ==
    LET to_clean == {key \in DOMAIN d :
                        IF Many(key) /\ d[key] = "[]" THEN TRUE
                        ELSE d[key] = "None"}
    IN  [key \in DOMAIN d \ to_clean |-> d[key]]

\* schema.dump(obj) of a TrimSchema has serialised obj to `data`; the
\* post_dump hook runs and its result is what dump gives back.
Clean_empty ==
    /\ schema = "TrimSchema"
    /\ dumped = None
    /\ dumped' = Some(clean_empty(data))
    /\ UNCHANGED <<connectionVars, schema, data, loaded>>

InitTrim ==
    /\ ConnectionsUnused
    /\ schema = "TrimSchema"
    /\ data \in Mappings(TrimFields, TrimValues)
    /\ loaded = None
    /\ dumped = None

NextTrim == Clean_empty

SpecTrim == InitTrim /\ [][NextTrim]_vars

\* ------------------------------------------------------ NamedTupleSchema
\* Three of the NamedTupleSchema subclasses of the module.
NamedTupleSchemas ==
    {"PhoneNumberSchema", "CustomFieldSchema", "PipelineStageSchema"}

\* self.declared_fields.keys(), lines 75-77, 80-82 and 99-102.
declared_fields(sch) ==
    CASE sch = "PhoneNumberSchema" -> {"number", "category"}
      [] sch = "CustomFieldSchema" -> {"custom_field_definition_id", "value"}
      [] sch = "PipelineStageSchema" -> {"id", "name", "win_probability"}

\* The class of a declared field.
FieldClass(sch, f) ==
    CASE f \in {"number", "category", "name"} -> "String"
      [] f \in {"custom_field_definition_id", "id", "win_probability"}
            -> "Integer"
      [] f = "value" -> "Raw"

\* The `attribute` of a declared field: the key its value has in what load
\* builds and in what dump reads; the name of the field unless declared
\* otherwise (line 81).
Attribute(sch, f) ==
    IF sch = "CustomFieldSchema" /\ f = "custom_field_definition_id"
    THEN "id" ELSE f

\* required=True, lines 100-101.
Required(sch, f) == sch = "PipelineStageSchema" /\ f \in {"id", "name"}

\* allow_none=True, line 82.
AllowNone(sch, f) == sch = "CustomFieldSchema" /\ f = "value"

\* The keys a wire mapping may hold for a schema: the names of its fields
\* and their attributes.
WireKeys(sch) ==
    declared_fields(sch) \cup {Attribute(sch, f) : f \in declared_fields(sch)}

\* The values a wire mapping may hold: an int, a str of digits, another str
\* and null.
WireValues == {"1", "'1'", "'a'", "None"}

\* field.deserialize(value) for a value that is not None: Integer is
\* int(value), which fails on 'a'; String is str(value); Raw hands the
\* value on.  "invalid" stands for the ValidationError.
Deserialize(class, v) ==
    CASE class = "Integer" -> (IF v \in {"1", "'1'"} THEN "1" ELSE "invalid")
      [] class = "String" -> (IF v = "1" THEN "'1'" ELSE v)
      [] class = "Raw" -> v

\* field.serialize of the value found: the same conversions, and None for
\* None.
Serialize(class, v) ==
    IF v = "None" THEN "None"
    ELSE CASE class = "Integer" -> (IF v \in {"1", "'1'"} THEN "1" ELSE "invalid")
           [] class = "String" -> (IF v = "1" THEN "'1'" ELSE v)
           [] class = "Raw" -> v

\* The fields marshmallow reports an error for on load: a required field
\* that is missing, a None where allow_none is not set, a value that does
\* not deserialise.
LoadErrors(sch, wire) ==
    {f \in declared_fields(sch) :
        IF f \notin DOMAIN wire THEN Required(sch, f)
        ELSE IF wire[f] = "None" THEN ~AllowNone(sch, f)
        ELSE Deserialize(FieldClass(sch, f), wire[f]) = "invalid"}

\* What marshmallow's load hands to the post_load hook: every declared
\* field found in the wire mapping under its own name, deserialised and
\* stored under its attribute.
Unmarshal(sch, wire) ==
    LET found == {f \in declared_fields(sch) : f \in DOMAIN wire}
    IN  [a \in {Attribute(sch, f) : f \in found} |->
            LET f == CHOOSE g \in found : Attribute(sch, g) = a
            IN  IF wire[f] = "None" THEN "None"
                ELSE Deserialize(FieldClass(sch, f), wire[f])]

\* NamedTupleSchema.to_namedtuple, lines 49-51: namedtuple_class(**data),
\* the class having the declared field names as its fields (lines 46-47).
\* A key that is no field, or a field without a key, is a TypeError.
to_namedtuple(sch, d) ==
    IF DOMAIN d = declared_fields(sch)
    THEN [outcome |-> "record", value |-> Some(d)]
    ELSE [outcome |-> "TypeError", value |-> None]

\* schema.load(data): with errors the hook is not run and the errors are
\* handed back.
Load ==
    /\ schema \in NamedTupleSchemas
    /\ loaded = None
    /\ loaded' = Some(IF LoadErrors(schema, data) # {}
                      THEN [outcome |-> "errors", value |-> None]
                      ELSE to_namedtuple(schema, Unmarshal(schema, data)))
    /\ UNCHANGED <<connectionVars, schema, data, dumped>>

\* NamedTupleSchema.from_namedtuple, lines 53-57: a record is no Mapping and
\* becomes obj._asdict(), the mapping from its field names to its values.
from_namedtuple(obj) == [f \in DOMAIN obj |-> obj[f]]

\* What marshmallow's dump makes of the mapping the pre_dump hook returned:
\* every declared field whose attribute is a key of the mapping, serialised
\* and stored under the name of the field; the others are left out.
Marshal(sch, obj) ==
    [f \in {g \in declared_fields(sch) : Attribute(sch, g) \in DOMAIN obj} |->
        Serialize(FieldClass(sch, f), obj[Attribute(sch, f)])]

\* schema.dump(record) of the record load returned.
Dump ==
    /\ schema \in NamedTupleSchemas
    /\ loaded # None
    /\ Val(loaded).outcome = "record"
    /\ dumped = None
    /\ dumped' = Some(Marshal(schema, from_namedtuple(Val(Val(loaded).value))))
    /\ UNCHANGED <<connectionVars, schema, data, loaded>>

InitTuple ==
    /\ ConnectionsUnused
    /\ schema \in NamedTupleSchemas
    /\ data \in Mappings(WireKeys(schema), [k \in WireKeys(schema) |-> WireValues])
    /\ loaded = None
    /\ dumped = None

NextTuple == Load \/ Dump

SpecTuple == InitTuple /\ [][NextTuple]_vars

\* ================================================================ claims
Abs(x) == IF x < 0 THEN 0 - x ELSE x

\* Thread t takes a step from statement `at`.
Leaves(t, at) == pc[t] = at /\ pc'[t] # at

\* C1: on a Connection with rate_limit r > 0 shared by several threads, any
\* two outbound calls are recorded (as last_api_call) at least 60/r seconds
\* apart, 60/r being the exact quotient: a time being recorded lies that far
\* from every time recorded before.
C1_RecordedApart ==
    [][\A t \in Threads :
        (Leaves(t, "store") /\ sharers = Threads /\ trueDivision)
        => \A before \in stamps[frame[t].self] :
              Abs(Val(frame[t].stamp) - before) * rate_limit[frame[t].self]
                  >= Seconds(60)]_vars

\* C2: on a Connection with rate_limit r > 0 used by one thread, a call's
\* request goes out no earlier than 60/r seconds after the time the call
\* before it recorded as last_api_call.
C2_BackToBack ==
    [][\A t \in Threads :
        (Leaves(t, "request") /\ sharers = {t} /\ frame[t].prev # None)
        => (clock - Val(frame[t].prev)) * rate_limit[frame[t].self]
              >= Seconds(60)]_vars

\* C3: a get(url) that finds an unexpired entry for url returns the stored
\* response and nothing else happens: no request is issued, and the cache
\* and last_api_call stay as they were.
C3_HitServedFromCache ==
    [][\A t \in Threads :
        (/\ Leaves(t, "get")
         /\ cache[frame[t].self][frame[t].url] # None
         /\ clock <= Val(cache[frame[t].self][frame[t].url]).expires)
        => /\ pc'[t] = "idle"
           /\ ret'[t] # None
           /\ Val(ret'[t]).value = Val(cache[frame[t].self][frame[t].url]).value
           /\ Val(ret'[t]).nreq = 0
           /\ UNCHANGED <<cache, last_api_call, stamps, nsent, nresp>>]_vars

\* C3 witness: a get has returned a cached response, which is still the
\* entry of its url, on a Connection whose rate limiter has run before.
C3_Witness ==
    \E t \in Threads :
        /\ ret[t] # None
        /\ Val(ret[t]).op = "get"
        /\ Val(ret[t]).hit
        /\ Val(ret[t]).nreq = 0
        /\ cache[1][Val(ret[t]).url] # None
        /\ Val(cache[1][Val(ret[t]).url]).value = Val(ret[t]).value
        /\ last_api_call[1] # None
        /\ nsent = 1

\* C4: a get(url) that finds no entry, or an expired one, goes through
\* http_method; it issues exactly one GET, after the rate limiter has
\* recorded the call, and stores the response under url for 300 seconds,
\* so that a get of the url at that moment is a hit on the new response.
C4_MissFetchesOnceAndCaches ==
    [][\A t \in Threads :
        /\ (/\ Leaves(t, "get")
            /\ \/ cache[frame[t].self][frame[t].url] = None
               \/ clock > Val(cache[frame[t].self][frame[t].url]).expires)
           => pc'[t] = "http_method"
        /\ (Leaves(t, "request") /\ frame[t].op = "get")
           => /\ frame[t].nreq = 0
              /\ frame[t].stamp # None
              /\ frame[t].method = "get"
        /\ Leaves(t, "cache_set")
           => /\ frame[t].op = "get"
              /\ frame[t].nreq = 1
              /\ cache'[frame[t].self][frame[t].url]
                    = Some([value |-> Val(frame[t].resp),
                            expires |-> clock + Seconds(300)])
              /\ \A u \in ReqUrls \ {frame[t].url} :
                    cache'[frame[t].self][u] = cache[frame[t].self][u]
              /\ CacheGet(cache'[frame[t].self], frame[t].url, clock')
                    = frame[t].resp
              /\ ret'[t] # None
              /\ Val(ret'[t]).value = Val(frame[t].resp)]_vars

\* C4 witness: a get of a url whose entry had expired has fetched a second
\* response with one request, and that response is now the cached one.
C4_Witness ==
    \E t \in Threads :
        /\ ret[t] # None
        /\ Val(ret[t]).op = "get"
        /\ ~Val(ret[t]).hit
        /\ Val(ret[t]).nreq = 1
        /\ Val(ret[t]).value.id = 2
        /\ nsent = 2
        /\ clock > FiveMinutes
        /\ cache[1][Val(ret[t]).url] # None
        /\ Val(cache[1][Val(ret[t]).url]).value = Val(ret[t]).value
        /\ Val(cache[1][Val(ret[t]).url]).expires = clock + Seconds(300)

\* C5 (as claimed): once a successful delete(url) has run, the cache holds
\* no response for url received before the delete's own response, in every
\* interleaving.
C5_NoStaleEntry ==
    \A c \in ConnIds, u \in ReqUrls :
        cache[c][u] # None => Val(cache[c][u]).value.id > deleted[c][u]

\* C5 (amended): the same, except for an entry stored by a get(url) that
\* looked the cache up before the delete cleared it and stored its response
\* after (the last writer wins).
C5_NoStaleEntryUnlessRaced ==
    \A c \in ConnIds, u \in ReqUrls :
        (cache[c][u] # None /\ ~raced[c][u]) =>
            Val(cache[c][u]).value.id > deleted[c][u]

\* C5 witness: a get had cached a response for a url, a later delete of the
\* url succeeded with no get in flight, and the entry is gone.
C5_Witness ==
    \E t \in Threads, u \in ReqUrls :
        /\ ret[t] # None
        /\ Val(ret[t]).op = "get"
        /\ Val(ret[t]).url = u
        /\ Val(ret[t]).value.id = 1
        /\ deleted[1][u] = 2
        /\ ~raced[1][u]
        /\ cache[1][u] = None

\* C6 (as claimed): delete(url) issues its one DELETE and then clears the
\* entry of url exactly when the status is 2xx; with any other status the
\* cache is left as it was.
C6_ClearedOnlyOn2xx ==
    [][\A t \in Threads :
        Leaves(t, "ok_check")
        => /\ frame[t].nreq = 1
           /\ frame[t].method = "delete"
           /\ IF Val(frame[t].resp).status \in 200..299
              THEN cache' = [cache EXCEPT ![frame[t].self][frame[t].url] = None]
              ELSE cache' = cache]_vars

\* C6 (amended): delete(url) issues its one DELETE and then clears the entry
\* of url exactly when the response is ok, that is when its status is below
\* 400; with a 4xx or 5xx status the cache is left as it was.
C6_ClearedOnlyWhenOk ==
    [][\A t \in Threads :
        Leaves(t, "ok_check")
        => /\ frame[t].nreq = 1
           /\ frame[t].method = "delete"
           /\ IF Val(frame[t].resp).status < 400
              THEN cache' = [cache EXCEPT ![frame[t].self][frame[t].url] = None]
              ELSE cache' = cache]_vars

\* C6 witness: a delete has come back with a failure status and the entry of
\* its url, cached by an earlier get, is still there.
C6_Witness ==
    \E t \in Threads :
        /\ ret[t] # None
        /\ Val(ret[t]).op = "delete"
        /\ Val(ret[t]).value.status >= 400
        /\ Val(ret[t]).nreq = 1
        /\ cache[1][Val(ret[t]).url] # None
        /\ Val(cache[1][Val(ret[t]).url]).value.id = 1

\* The Connection a thread's connect call finds registered under its name.
Existing(t) == connections[frame[t].name]

\* C7: connect under a name that is already registered raises the
\* library's configuration error (MisconfiguredError) with a message that
\* holds the e-mail of the existing Connection, and the registry stays as
\* it was.
C7_DuplicateIsConfigurationError ==
    [][\A t \in Threads :
        (Leaves(t, "connect") /\ Existing(t) # None)
        => /\ pc'[t] = "idle"
           /\ ret'[t] # None
           /\ Val(ret'[t]).raised = Some("MisconfiguredError")
           /\ Val(ret'[t]).message = email[Val(Existing(t))]
           /\ connections' = connections]_vars

\* C8: of the connects made under one name at most one returns a
\* Connection, and the registry holds the Connection that one returned.
C8_OneWinner ==
    \A n \in Names :
        /\ Cardinality(returned[n]) <= 1
        /\ \A c \in returned[n] : connections[n] = Some(c)

\* C9: an entry of the registry is never removed or replaced; get(name)
\* returns the registered Connection and changes nothing; get of a name that
\* is not registered raises MisconfiguredError and changes nothing.
C9_EntriesStay ==
    [][/\ \A n \in Names :
            connections[n] # None => connections'[n] = connections[n]
       /\ \A t \in Threads :
            (pc[t] = "idle" /\ ret'[t] # ret[t] /\ ret'[t] # None
                /\ Val(ret'[t]).op = "get")
            => /\ connections' = connections
               /\ IF connections[Val(ret'[t]).name] # None
                  THEN /\ Val(ret'[t]).value = connections[Val(ret'[t]).name]
                       /\ Val(ret'[t]).raised = None
                  ELSE /\ Val(ret'[t]).value = None
                       /\ Val(ret'[t]).raised = Some("MisconfiguredError")]_vars

\* The pieces of url after its hostname: the path.
UrlPath(url) ==
    LET k == IF UrlScheme(url) = "" THEN 1 ELSE 3
    IN  IF UrlHostname(url) = "" THEN SubSeq(url, k, Len(url))
        ELSE SubSeq(url, k + 3, Len(url))

\* The url has a path segment that is a version, such as v2.
HasVersionSegment(url) ==
    \E i \in 1..Len(UrlPath(url)) : UrlPath(url)[i] \in {"v1", "v2"}

\* The url has scheme http or https, a hostname and no version segment.
WellFormed(url) ==
    /\ UrlScheme(url) \in {"http", "https"}
    /\ UrlHostname(url) # ""
    /\ ~HasVersionSegment(url)

\* C10: connect with a url that is not well formed raises MisconfiguredError
\* and registers nothing; connect with a well-formed url under a name that
\* is not registered goes on to construct and register the Connection.
C10_UrlCheckedAtConnect ==
    [][\A t \in Threads :
        /\ (Leaves(t, "connect") /\ ~WellFormed(frame[t].url)
               /\ pc'[t] = "idle")
           => /\ Val(ret'[t]).raised = Some("MisconfiguredError")
              /\ connections' = connections
        /\ Leaves(t, "validate_url")
           => IF WellFormed(frame[t].url)
              THEN pc'[t] = "construct"
              ELSE /\ pc'[t] = "idle"
                   /\ Val(ret'[t]).raised = Some("MisconfiguredError")
                   /\ connections' = connections
        /\ Leaves(t, "register")
           => /\ WellFormed(frame[t].url)
              /\ connections'[frame[t].name] = frame[t].conn
              /\ Val(ret'[t]).value = frame[t].conn]_vars

\* The thread is inside a call of one of the six verbs of a Connection.
InVerb(t) == pc[t] # "idle" /\ frame[t].op \in {"get", "delete", "verb"}

\* C11: on a Connection with rate_limit 0 no call of any verb ever sleeps,
\* or gets as far as measuring the time since the last call, however many
\* threads call it and however close together; the call touches neither
\* last_api_call nor the clock.
C11_DisabledNeverSleeps ==
    \A t \in Threads :
        (InVerb(t) /\ rate_limit[frame[t].self] = 0)
        => /\ pc[t] \notin {"elapsed", "compare", "sleep", "record", "store"}
           /\ frame[t].wake = None
           /\ last_api_call[frame[t].self] = None

\* C11 witness: both threads have sent a request on the Connection whose
\* limiter is off, one right after the other, and no time has passed.
C11_Witness ==
    /\ clock = 0
    /\ nsent = 2
    /\ \A t \in Threads :
          /\ pc[t] = "response"
          /\ frame[t].self = 2
          /\ rate_limit[2] = 0
    /\ \E t \in Threads : frame[t].op = "get"

\* C12: last_api_call of a Connection changes only in the step of
\* http_method that ends its rate-limiting section (line 136), and it never
\* goes back: a write stores no earlier time than the one already stored,
\* also when several threads call the Connection.
C12_LastCallMonotonic ==
    [][\A c \in ConnIds :
        /\ last_api_call'[c] # last_api_call[c]
           => \E t \in Threads : Leaves(t, "store") /\ frame[t].self = c
        /\ last_api_call[c] # None
           => /\ last_api_call'[c] # None
              /\ Val(last_api_call'[c]) >= Val(last_api_call[c])]_vars

\* C13: rate limiting only delays.  Every call of http_method on a
\* Connection with rate_limit r > 0 goes on to issue its request; the sleep
\* it asks for in the rate limiter is a positive time (time.sleep raises on
\* a negative one) of at most 60/r seconds.
C13_OnlyDelays ==
    /\ \A t \in Threads :
          (pc[t] = "http_method" /\ rate_limit[frame[t].self] > 0)
              ~> (pc[t] = "response")
    /\ [][\A t \in Threads :
            (Leaves(t, "compare") /\ pc'[t] = "sleep")
            => /\ Val(frame'[t].wake) - clock > 0
               /\ (Val(frame'[t].wake) - clock) * rate_limit[frame[t].self]
                     <= Seconds(60)]_vars

\* C14 (as claimed): what TrimSchema's dump gives back holds no key whose
\* value is None or an empty list, whatever the field of the key, and holds
\* every other key of the serialised data with its value.
C14_NoEmptyValue ==
    dumped # None =>
        /\ \A k \in DOMAIN Val(dumped) : Val(dumped)[k] \notin {"None", "[]"}
        /\ \A k \in DOMAIN data :
              data[k] \notin {"None", "[]"}
              => k \in DOMAIN Val(dumped) /\ Val(dumped)[k] = data[k]

\* C14 (amended): what TrimSchema's dump gives back holds no key whose value
\* is None and no key of a collection (many) field whose value is an empty
\* list; it holds every other key of the serialised data with its value,
\* the falsy 0, False and '' among them and also an empty list under a
\* field that is not a collection field; and it holds no other key.
C14_NoEmptyField ==
    dumped # None =>
        /\ \A k \in DOMAIN Val(dumped) :
              /\ Val(dumped)[k] # "None"
              /\ Many(k) => Val(dumped)[k] # "[]"
              /\ k \in DOMAIN data
        /\ \A k \in DOMAIN data :
              (data[k] # "None" /\ ~(Many(k) /\ data[k] = "[]"))
              => k \in DOMAIN Val(dumped) /\ Val(dumped)[k] = data[k]

\* C14 witness: a dump of data with a None, an empty collection field and
\* the falsy values 0, False and '' has kept exactly the three falsy ones.
C14_Witness ==
    /\ dumped # None
    /\ DOMAIN data = {"count", "flag", "name", "emails"}
    /\ data["count"] = "0"
    /\ data["flag"] = "False"
    /\ data["name"] = "''"
    /\ data["emails"] = "[]"
    /\ DOMAIN Val(dumped) = {"count", "flag", "name"}

\* The wire mapping holds one value for every field of the schema, under
\* the names of the fields or under their attributes, each of the type the
\* field serialises to and none of them null.
Conforming(sch, wire) ==
    /\ \/ DOMAIN wire = declared_fields(sch)
       \/ DOMAIN wire = {Attribute(sch, f) : f \in declared_fields(sch)}
    /\ \A k \in DOMAIN wire :
          /\ wire[k] # "None"
          /\ \A f \in declared_fields(sch) :
                (k = f \/ k = Attribute(sch, f))
                => Serialize(FieldClass(sch, f), wire[k]) = wire[k]

\* C15: for every NamedTupleSchema subclass, one with an attribute alias
\* included, and every wire mapping that conforms to it, load gives a
\* record whose field names are the declared field names, and dump of that
\* record gives the wire mapping back.
C15_RoundTrip ==
    (schema \in NamedTupleSchemas /\ Conforming(schema, data)) =>
        /\ loaded # None
           => /\ Val(loaded).outcome = "record"
              /\ DOMAIN Val(Val(loaded).value) = declared_fields(schema)
        /\ dumped # None => Val(dumped) = data

\* C16: a call of post, put, patch or options goes straight to http_method
\* with the verb as the method: it is never at the cache lookup or at a
\* cache update, none of its steps changes the cache, it passes the rate
\* limiter (where that is on, a time is recorded before the request) and it
\* returns the response of the one request it issued.
C16_PassThrough ==
    [][\A t \in Threads :
        (InVerb(t) /\ frame[t].op = "verb")
        => /\ pc[t] \notin {"get", "cache_set", "ok_check"}
           /\ frame[t].method \in Verbs
           /\ pc'[t] # pc[t] => cache' = cache
           /\ Leaves(t, "request")
              => /\ frame[t].nreq = 0
                 /\ rate_limit[frame[t].self] > 0 => frame[t].stamp # None
           /\ Leaves(t, "response")
              => /\ pc'[t] = "idle"
                 /\ Val(ret'[t]).nreq = 1
                 /\ ~Val(ret'[t]).hit
                 /\ Val(ret'[t]).value.id = nresp + 1
                 /\ Val(ret'[t]).value.method = frame[t].method]_vars

\* C16 witness: a put of a url has returned its own response, and the
\* response a get of that url had cached before, on the same Connection, is
\* still the entry of the url.
C16_Witness ==
    \E t \in Threads :
        /\ ret[t] # None
        /\ Val(ret[t]).op = "verb"
        /\ Val(ret[t]).value.method = "put"
        /\ Val(ret[t]).value.id = 2
        /\ Val(ret[t]).nreq = 1
        /\ cache[1][Val(ret[t]).url] # None
        /\ Val(cache[1][Val(ret[t]).url]).value.id = 1
        /\ Cardinality(stamps[1]) = 2
        /\ nsent = 2

\* C17: in a call of http_method with the limiter on, the sleep, if any,
\* is over before the time of the call is taken; that time is stored as
\* last_api_call before the request is sent; the arrival of the response
\* leaves last_api_call as it is; and a call that finds last_api_call unset
\* goes to record the time without sleeping.
C17_RecordedBeforeRequest ==
    [][\A t \in Threads :
        /\ (Leaves(t, "http_method") /\ rate_limit[frame[t].self] > 0
               /\ last_api_call[frame[t].self] = None)
           => pc'[t] = "record" /\ clock' = clock
        /\ Leaves(t, "sleep")
           => /\ pc'[t] = "record"
              /\ frame[t].stamp = None
              /\ clock' >= Val(frame[t].wake)
        /\ Leaves(t, "record")
           => /\ pc'[t] = "store"
              /\ frame'[t].stamp = Some(clock)
              /\ frame[t].wake = None
        /\ Leaves(t, "store")
           => /\ pc'[t] = "request"
              /\ frame[t].nreq = 0
              /\ last_api_call'[frame[t].self] = frame[t].stamp
        /\ (Leaves(t, "request") /\ rate_limit[frame[t].self] > 0)
           => /\ frame[t].stamp # None
              /\ last_api_call[frame[t].self] # None
              /\ last_api_call' = last_api_call
        /\ Leaves(t, "response") => last_api_call' = last_api_call]_vars

\* C17 witness: a call that found last_api_call set at time 0 has slept the
\* minimum spacing, recorded the time it woke at and sent its request, and
\* its response is still out.
C17_Witness ==
    \E t \in Threads :
        /\ pc[t] = "response"
        /\ frame[t].prev = Some(0)
        /\ MinSpacing(rate_limit[frame[t].self]) > 0
        /\ frame[t].stamp = Some(MinSpacing(rate_limit[frame[t].self]))
        /\ last_api_call[frame[t].self] = frame[t].stamp
        /\ clock = Val(frame[t].stamp)

\* C18: the spacing the rate limiter enforces is the exact quotient 60 /
\* rate_limit, which is positive for every rate_limit > 0: a call that
\* finds less than that elapsed since last_api_call sleeps, and for what is
\* missing to it; no other call sleeps.
C18_ExactSpacing ==
    [][\A t \in Threads :
        Leaves(t, "compare")
        => LET r == rate_limit[frame[t].self]
               elapsed == Val(frame[t].now) - Val(last_api_call[frame[t].self])
           IN  /\ (elapsed * r < Seconds(60)) <=> (pc'[t] = "sleep")
               /\ pc'[t] = "sleep"
                  => (Val(frame'[t].wake) - clock + elapsed) * r
                        = Seconds(60)]_vars

\* C19: whatever the status of the response, http_method hands it on and
\* the call returns it, raising nothing; a get that missed caches it, a
\* 404 like a 200, and a get of the url finds it there and returns it
\* without a request for as long as its five minutes last.
C19_AnyStatusReturnedAndCached ==
    [][\A t \in Threads :
        /\ Leaves(t, "response")
           => /\ pc'[t] \in {"cache_set", "ok_check", "idle"}
              /\ pc'[t] = "idle"
                 => Val(ret'[t]).value.status \in Statuses
              /\ pc'[t] # "idle"
                 => /\ frame'[t].resp # None
                    /\ Val(frame'[t].resp).status \in Statuses
                    /\ Val(frame'[t].resp).id = nresp + 1
        /\ Leaves(t, "ok_check")
           => /\ pc'[t] = "idle"
              /\ Val(ret'[t]).value = Val(frame[t].resp)
        /\ Leaves(t, "cache_set")
           => /\ pc'[t] = "idle"
              /\ Val(ret'[t]).value = Val(frame[t].resp)
              /\ cache'[frame[t].self][frame[t].url] # None
              /\ Val(cache'[frame[t].self][frame[t].url]).value
                    = Val(frame[t].resp)
        /\ (/\ Leaves(t, "get")
            /\ cache[frame[t].self][frame[t].url] # None
            /\ Val(cache[frame[t].self][frame[t].url]).value.status >= 400
            /\ clock <= Val(cache[frame[t].self][frame[t].url]).expires)
           => /\ pc'[t] = "idle"
              /\ Val(ret'[t]).value
                    = Val(cache[frame[t].self][frame[t].url]).value
              /\ Val(ret'[t]).nreq = 0
              /\ nsent' = nsent]_vars

\* C19 witness: at the very end of the five minutes of a cached 404 a get
\* of its url has returned that 404, and one request is all that was sent.
C19_Witness ==
    \E t \in Threads :
        /\ ret[t] # None
        /\ Val(ret[t]).op = "get"
        /\ Val(ret[t]).hit
        /\ Val(ret[t]).value.status = 404
        /\ Val(ret[t]).value.id = 1
        /\ Val(ret[t]).nreq = 0
        /\ nsent = 1
        /\ clock = FiveMinutes
        /\ Val(cache[1][Val(ret[t]).url]).expires = FiveMinutes

\* C20: the state of the rate limiter and the cache are the Connection's
\* own.  A step of a call on one Connection leaves last_api_call and the
\* cache of every other Connection as they are; whether the call sleeps,
\* and for how long, is a matter of the last_api_call and the rate_limit
\* of its own Connection alone, and a call that finds its own
\* Connection's last_api_call unset does not sleep, whatever was called on
\* the others.
C20_PerConnection ==
    [][\A t \in Threads :
        (InVerb(t) /\ pc'[t] # pc[t])
        => LET c == frame[t].self
           IN  /\ \A d \in ConnIds \ {c} :
                     /\ last_api_call'[d] = last_api_call[d]
                     /\ cache'[d] = cache[d]
               /\ (Leaves(t, "http_method") /\ last_api_call[c] = None)
                  => pc'[t] \in {"record", "request"}
               /\ Leaves(t, "compare")
                  => LET elapsed == Val(frame[t].now) - Val(last_api_call[c])
                     IN  IF elapsed < MinSpacing(rate_limit[c])
                         THEN /\ pc'[t] = "sleep"
                              /\ Val(frame'[t].wake) - clock
                                    = MinSpacing(rate_limit[c]) - elapsed
                         ELSE pc'[t] = "record"]_vars

\* C20 witness: with the limiter on for both Connections, one thread has
\* called the first and the other the second at the same moment; both
\* have recorded that moment and sent their requests, neither has slept,
\* and the response a get has cached on the first Connection is not in the
\* cache of the second.
C20_Witness ==
    /\ rate_limit[2] = 600
    /\ trueDivision
    /\ clock = 0
    /\ last_api_call[1] = Some(0)
    /\ last_api_call[2] = Some(0)
    /\ pc["t1"] = "idle"
    /\ ret["t1"] # None
    /\ Val(ret["t1"]).op = "get"
    /\ Val(ret["t1"]).nreq = 1
    /\ cache[1][Val(ret["t1"]).url] # None
    /\ \A u \in ReqUrls : cache[2][u] = None
    /\ pc["t2"] = "response"
    /\ frame["t2"].self = 2
    /\ frame["t2"].op = "delete"

====
